---- MODULE Spec2Model ----
(***************************************************************************)
(* A model of the PSD peak fitting notebook                                *)
(* (voytek_PSD_peak_finding_code_3.5.15.ipynb): the extrema detector       *)
(* (peakdect, find_peaks), the candidate pooling (transform_data), the     *)
(* cluster-count selector (kmeans, find_cluster), bootstrap, the consensus *)
(* aggregator (final_check_for_output) and the cross-validation loop       *)
(* (final_peak_fitting).                                                   *)
(*                                                                         *)
(* Numbers.  Spectral values are real numbers in the notebook.  The model  *)
(* keeps them as integers in a fixed unit: flatspec values and thresholds  *)
(* in hundredths (the thresholds 0.03, 0.05, 0.07 are 3, 5, 7),            *)
(* frequencies in Hz on the detector side, and fitted centers in half Hz   *)
(* on the aggregator side, where the truncation of a real index matters.   *)
(***************************************************************************)
EXTENDS Integers, Sequences, FiniteSets, TLC

VARIABLES
  \* peakdect / find_peaks called on their own
  pd_pc, pd_v, pd_delta, pd_x, pd_out, fp_out,
  \* bootstrap called on its own
  bs_pc, bs_data, bs_i, bootstrap_dist, bs_out,
  \* final_check_for_output called on its own
  fc_pc, fc_pks, fc_std, fc_flatspec, fc_out,
  \* find_cluster called on its own
  cl_pc, cl_X, cluster_size, SoS_list, cl_out,
  \* final_peak_fitting: the position in the run, the outer repetition (i in
  \* the notebook) and the inner split under way, the locals of the body of
  \* the outer loop, the two accumulated lists, the number of 'FAILED FIT'
  \* lines printed, what find_peaks returned for the peaks of the repetition
  \* under way, and the outcome of the run
  pc, rep, split, peaks_cv, valleys_cv, X_peaks, X_valleys, extcv_pks,
  extcv_std, printed, peaks_found, outcome

pd_vars == <<pd_pc, pd_v, pd_delta, pd_x, pd_out, fp_out>>
bs_vars == <<bs_pc, bs_data, bs_i, bootstrap_dist, bs_out>>

fc_vars == <<fc_pc, fc_pks, fc_std, fc_flatspec, fc_out>>

cl_vars == <<cl_pc, cl_X, cluster_size, SoS_list, cl_out>>

fpf_vars == <<pc, rep, split, peaks_cv, valleys_cv, X_peaks, X_valleys,
              extcv_pks, extcv_std, printed, peaks_found, outcome>>

vars == <<pd_vars, bs_vars, fc_vars, cl_vars, fpf_vars>>

(***************************************************************************)
(* Bounds of the model.                                                    *)
(***************************************************************************)
MaxLen == 4      \* longest sequence handed to peakdect on its own
MaxVal == 3      \* largest sample value of such a sequence
MaxDelta == 2    \* largest threshold handed to peakdect on its own
Resamples == 3   \* resamples of one bootstrap call (the notebook draws 1000)
MaxData == 4     \* largest array handed to bootstrap on its own
MaxComps == 3    \* most fitted components in one accumulation of fit results
MaxRuns == 2     \* most repetitions such an accumulation comes from
MaxPool == 6     \* most observations in a pool handed to find_cluster on its own

(***************************************************************************)
(* The values the variables of a part keep while another part is checked.  *)
(***************************************************************************)
NoReturn == [status |-> "none"]

IdlePeaks ==
  /\ pd_pc = "idle"
  /\ pd_v = <<>>
  /\ pd_delta = 0
  /\ pd_x = <<>>
  /\ pd_out = NoReturn
  /\ fp_out = NoReturn

IdleBoot ==
  /\ bs_pc = "idle"
  /\ bs_data = <<>>
  /\ bs_i = 0
  /\ bootstrap_dist = <<>>
  /\ bs_out = <<>>

IdleCheck ==
  /\ fc_pc = "idle"
  /\ fc_pks = <<>>
  /\ fc_std = <<>>
  /\ fc_flatspec = <<>>
  /\ fc_out = NoReturn

IdleCluster ==
  /\ cl_pc = "idle"
  /\ cl_X = <<>>
  /\ cluster_size = 0
  /\ SoS_list = <<>>
  /\ cl_out = NoReturn

IdleFitting ==
  /\ pc = "idle"
  /\ rep = 0
  /\ split = 0
  /\ peaks_cv = <<>>
  /\ valleys_cv = <<>>
  /\ X_peaks = <<>>
  /\ X_valleys = <<>>
  /\ extcv_pks = <<>>
  /\ extcv_std = <<>>
  /\ printed = 0
  /\ peaks_found = <<>>
  /\ outcome = NoReturn

(***************************************************************************)
(* Generic helpers.                                                        *)
(***************************************************************************)
Range(s) == {s[j] : j \in DOMAIN s}

RECURSIVE SumSeq(_)
SumSeq(s) == IF s = <<>> THEN 0 ELSE Head(s) + SumSeq(Tail(s))

RECURSIVE Flatten(_)
Flatten(ss) == IF ss = <<>> THEN <<>> ELSE Head(ss) \o Flatten(Tail(ss))

\* The number of entries of s equal to e.
Count(s, e) == Cardinality({j \in DOMAIN s : s[j] = e})

\* s and t hold the same values with the same multiplicities.
SameBag(s, t) == /\ Len(s) = Len(t)
                 /\ \A e \in Range(s) \cup Range(t) : Count(s, e) = Count(t, e)

(***************************************************************************)
(* IEEE values peakdect starts from: Inf, -Inf and NaN beside the finite   *)
(* numbers.                                                                *)
(***************************************************************************)
Fin(n) == [inf |-> 0, val |-> n]
Inf == [inf |-> 1, val |-> 0]
NegInf == [inf |-> -1, val |-> 0]
NaN == [inf |-> 2, val |-> 0]

\* a < b and a > b on the finite numbers and the infinities
Lt(a, b) == \/ a.inf < b.inf
            \/ a.inf = 0 /\ b.inf = 0 /\ a.val < b.val
Gt(a, b) == Lt(b, a)
\* a - d and a + d for a finite d
Minus(a, d) == IF a.inf = 0 THEN Fin(a.val - d) ELSE a
Plus(a, d) == IF a.inf = 0 THEN Fin(a.val + d) ELSE a

(***************************************************************************)
(* peakdect: the hysteresis scan.                                          *)
(***************************************************************************)
peakdect_init ==
  [mn |-> Inf, mx |-> NegInf, mnpos |-> NaN, mxpos |-> NaN,
   lookformax |-> TRUE, maxtab |-> <<>>, mintab |-> <<>>, examined |-> 0]

\* The body of the loop, lines 268-287, on the sample `this` at coordinate xi.
\* A slip: the reported maximum is the sample that confirmed it.
peakdect_step_reports_current(st, this, xi, delta) ==
  LET mx1 == IF Gt(Fin(this), st.mx) THEN Fin(this) ELSE st.mx
      mxpos1 == IF Gt(Fin(this), st.mx) THEN Fin(xi) ELSE st.mxpos
      mn1 == IF Lt(Fin(this), st.mn) THEN Fin(this) ELSE st.mn
      mnpos1 == IF Lt(Fin(this), st.mn) THEN Fin(xi) ELSE st.mnpos
      seen == [st EXCEPT !.mx = mx1, !.mxpos = mxpos1, !.mn = mn1,
                         !.mnpos = mnpos1, !.examined = @ + 1]
  IN IF st.lookformax
     THEN IF Lt(Fin(this), Minus(mx1, delta))
          THEN [seen EXCEPT !.maxtab = Append(@, <<xi, this>>),
                            !.mn = Fin(this), !.mnpos = Fin(xi),
                            !.lookformax = FALSE]
          ELSE seen
     ELSE IF Gt(Fin(this), Plus(mn1, delta))
          THEN [seen EXCEPT !.mintab = Append(@, <<mnpos1.val, mn1.val>>),
                            !.mx = Fin(this), !.mxpos = Fin(xi),
                            !.lookformax = TRUE]
          ELSE seen

peakdect_step(st, this, xi, delta) ==
  LET mx1 == IF Gt(Fin(this), st.mx) THEN Fin(this) ELSE st.mx
      mxpos1 == IF Gt(Fin(this), st.mx) THEN Fin(xi) ELSE st.mxpos
      mn1 == IF Lt(Fin(this), st.mn) THEN Fin(this) ELSE st.mn
      mnpos1 == IF Lt(Fin(this), st.mn) THEN Fin(xi) ELSE st.mnpos
      seen == [st EXCEPT !.mx = mx1, !.mxpos = mxpos1, !.mn = mn1,
                         !.mnpos = mnpos1, !.examined = @ + 1]
  IN IF st.lookformax
     THEN IF Lt(Fin(this), Minus(mx1, delta))
          THEN [seen EXCEPT !.maxtab = Append(@, <<mxpos1.val, mx1.val>>),
                            !.mn = Fin(this), !.mnpos = Fin(xi),
                            !.lookformax = FALSE]
          ELSE seen
     ELSE IF Gt(Fin(this), Plus(mn1, delta))
          THEN [seen EXCEPT !.mintab = Append(@, <<mnpos1.val, mn1.val>>),
                            !.mx = Fin(this), !.mxpos = Fin(xi),
                            !.lookformax = TRUE]
          ELSE seen

\* for i in arange(len(v)), from the state st on; i is the number of samples
\* examined so far
RECURSIVE peakdect_loop(_, _, _, _)
peakdect_loop(v, delta, x, st) ==
  IF st.examined >= Len(v) THEN st
  ELSE peakdect_loop(v, delta, x,
         peakdect_step(st, v[st.examined + 1], x[st.examined + 1], delta))

\* The argument checks of lines 253-260: sys.exit raises SystemExit.
\* A slip: a threshold of zero is let through.
peakdect_args_ok_zero_allowed(v, delta, x) == Len(v) = Len(x) /\ delta >= 0

peakdect_args_ok(v, delta, x) == Len(v) = Len(x) /\ delta > 0

\* peakdect(v, delta, x): what it returns, or the SystemExit it raises.
\* examined counts the samples the loop has read.
peakdect(v, delta, x) ==
  IF ~peakdect_args_ok(v, delta, x)
  THEN [status |-> "SystemExit", maxtab |-> <<>>, mintab |-> <<>>, examined |-> 0]
  ELSE LET st == peakdect_loop(v, delta, x, peakdect_init)
       IN [status |-> "ok", maxtab |-> st.maxtab, mintab |-> st.mintab,
           examined |-> st.examined]

(***************************************************************************)
(* find_peaks: the restriction to the band up to 30 Hz.                    *)
(***************************************************************************)
\* np.uint32 of a coordinate.  The frequencies of the model are whole numbers
\* of Hz in 0 .. 2^31 - 1, which np.uint32 keeps; a negative coordinate (none
\* reaches it here) would wrap around.
uint32(n) == IF n >= 0 THEN n ELSE n + 2147483647 + 1

\* i <= 30 in the two list comprehensions of find_peaks
InSearchBand(coord) == coord <= 30

\* [np.uint32(i) for i in tab[:,0] if i <= 30] inside try/except Exception:
\* tab[:,0] raises IndexError on the one-dimensional array of an empty table,
\* and the except clause then gives [-1].
restrict(tab) ==
  IF tab = <<>> THEN <<-1>>
  ELSE LET col == [j \in DOMAIN tab |-> tab[j][1]]
           kept == SelectSeq(col, InSearchBand)
       IN [j \in DOMAIN kept |-> uint32(kept[j])]

\* find_peaks(flatspec, sliding_window, f); peakdect is called outside the
\* try blocks, so its SystemExit leaves find_peaks.
find_peaks(flatspec, sliding_window, f) ==
  LET r == peakdect(flatspec, sliding_window, f)
  IN IF r.status # "ok"
     THEN [status |-> r.status, peakind |-> <<>>, valleyind |-> <<>>]
     ELSE [status |-> "ok", peakind |-> restrict(r.maxtab),
           valleyind |-> restrict(r.mintab)]

(***************************************************************************)
(* SpecPeaks: peakdect and find_peaks called on bounded inputs.            *)
(***************************************************************************)
\* Coordinate vectors: n consecutive frequencies from x0 on.
Window(x0, n) == [j \in 1..n |-> x0 + j - 1]
WindowStarts == {1, 28, 31}

InitPeaks ==
  /\ IdleFitting
  /\ IdleBoot
  /\ IdleCheck
  /\ IdleCluster
  /\ pd_pc = "start"
  /\ pd_v \in UNION {[1..n -> 0..MaxVal] : n \in 0..MaxLen}
  /\ pd_delta \in -1..MaxDelta
  /\ \E x0 \in WindowStarts, extra \in {-1, 0, 1} :
       pd_x = Window(x0, IF Len(pd_v) + extra < 0 THEN 0 ELSE Len(pd_v) + extra)
  /\ pd_out = NoReturn
  /\ fp_out = NoReturn

CallPeakdect ==
  /\ pd_pc = "start"
  /\ pd_out' = peakdect(pd_v, pd_delta, pd_x)
  /\ pd_pc' = "peakdect"
  /\ UNCHANGED <<pd_v, pd_delta, pd_x, fp_out>>
  /\ UNCHANGED <<bs_vars, fc_vars, cl_vars, fpf_vars>>

CallFindPeaks ==
  /\ pd_pc = "start"
  /\ fp_out' = find_peaks(pd_v, pd_delta, pd_x)
  /\ pd_out' = peakdect(pd_v, pd_delta, pd_x)
  /\ pd_pc' = "find_peaks"
  /\ UNCHANGED <<pd_v, pd_delta, pd_x>>
  /\ UNCHANGED <<bs_vars, fc_vars, cl_vars, fpf_vars>>

NextPeaks == CallPeakdect \/ CallFindPeaks

SpecPeaks == InitPeaks /\ [][NextPeaks]_vars

(***************************************************************************)
(* Claims about peakdect and find_peaks, checked under SpecPeaks.          *)
(***************************************************************************)
\* v rises strictly up to index p, then falls strictly to its end, and ends
\* more than delta below v[p].
Unimodal(v, delta, p) ==
  /\ p \in 1..(Len(v) - 1)
  /\ \A j \in 1..(p - 1) : v[j] < v[j + 1]
  /\ \A j \in p..(Len(v) - 1) : v[j] > v[j + 1]
  /\ v[Len(v)] < v[p] - delta

C4_BadArgumentsFail ==
  (pd_pc # "start" /\ (Len(pd_v) # Len(pd_x) \/ pd_delta <= 0)) =>
    /\ pd_out.status = "SystemExit"
    /\ pd_out.maxtab = <<>>
    /\ pd_out.mintab = <<>>
    /\ pd_out.examined = 0
    /\ pd_pc = "find_peaks" => fp_out = [status |-> "SystemExit", peakind |-> <<>>,
                                         valleyind |-> <<>>]

\* find_peaks was called with a threshold of zero on vectors of one length
\* and did not return.
C4_Witness ==
  /\ pd_pc = "find_peaks"
  /\ pd_delta = 0
  /\ Len(pd_v) = Len(pd_x)
  /\ Len(pd_v) > 0
  /\ fp_out.status = "SystemExit"

\* The index in pd_v of the sample at coordinate coord (pd_x holds
\* consecutive frequencies).
IndexOf(coord) == coord - pd_x[1] + 1

\* The maximum number j of pd_out.maxtab has the largest value among the
\* samples from the minimum reported before it (or from the first sample) to
\* the minimum reported after it (or to the last sample).
MaximalInItsStretch(j) ==
  LET p == IndexOf(pd_out.maxtab[j][1])
      from == IF j = 1 THEN 1 ELSE IndexOf(pd_out.mintab[j - 1][1])
      to == IF j <= Len(pd_out.mintab) THEN IndexOf(pd_out.mintab[j][1])
            ELSE Len(pd_v)
  IN /\ pd_out.maxtab[j][2] = pd_v[p]
     /\ \A q \in from..to : pd_v[q] <= pd_v[p]

\* To the left of the maximum number j there is a sample lower than it by
\* delta.
PrecededByLower(j) ==
  LET p == IndexOf(pd_out.maxtab[j][1])
  IN \E q \in 1..(p - 1) : pd_v[q] <= pd_v[p] - pd_delta

\* C11: every maximum peakdect reports (delta > 0, x as long as v) has the
\* largest value among the samples seen since the minimum reported before it,
\* or since the start, and has somewhere to its left a sample lower than it
\* by delta, the first maximum and a maximum at the first sample included.
C11_MaximumPrecededByLower ==
  (pd_pc = "peakdect" /\ pd_out.status = "ok") =>
    \A j \in DOMAIN pd_out.maxtab : MaximalInItsStretch(j) /\ PrecededByLower(j)

\* What the claim C5 expects of one table of detections: the coordinates up
\* to 30 Hz in detection order, or [-1] when there is none.
C5_Expected(tab) ==
  LET col == [j \in DOMAIN tab |-> tab[j][1]]
      kept == SelectSeq(col, InSearchBand)
  IN IF kept = <<>> THEN <<-1>> ELSE kept

\* C5: find_peaks returns, for maxima and for minima, exactly the detections
\* up to 30 Hz in detection order, and [-1], never an empty list, when no
\* detection survives: the detector found nothing, or found only above 30 Hz.
C5_SentinelWheneverNothingSurvives ==
  (pd_pc = "find_peaks" /\ fp_out.status = "ok") =>
    /\ fp_out.peakind = C5_Expected(pd_out.maxtab)
    /\ fp_out.valleyind = C5_Expected(pd_out.mintab)

(***************************************************************************)
(* bootstrap: 1000 medians of resamples drawn with replacement, then their *)
(* median and their 2.5th and 97.5th percentiles.                          *)
(*                                                                         *)
(* To stay in the integers a median is kept doubled (the mean of the two   *)
(* middle values of an even count is a half), and a percentile multiplied  *)
(* by 40 (the interpolation weights of 2.5% and 97.5% are fortieths): a    *)
(* resample's median is in units of 1/2, the returned median in units of   *)
(* 1/4 and the returned percentiles in units of 1/80 of the data's unit.   *)
(***************************************************************************)
RECURSIVE Insert(_, _)
Insert(e, s) == IF s = <<>> THEN <<e>>
                ELSE IF e <= Head(s) THEN <<e>> \o s
                ELSE <<Head(s)>> \o Insert(e, Tail(s))

RECURSIVE SortInts(_)
SortInts(s) == IF s = <<>> THEN <<>> ELSE Insert(Head(s), SortInts(Tail(s)))

\* twice np.median of a non-empty sequence of numbers
Median2(s) ==
  LET t == SortInts(s)
      n == Len(s)
  IN IF n % 2 = 1 THEN 2 * t[(n + 1) \div 2] ELSE t[n \div 2] + t[n \div 2 + 1]

\* np.median of a sequence of numbers, doubled: nan for an empty one (numpy
\* takes the mean of an empty slice, with a warning)
median(s) == IF s = <<>> THEN NaN ELSE Fin(Median2(s))

\* median of an array that may hold nan: nan as soon as one entry is
median_of(d) ==
  IF \E j \in DOMAIN d : d[j].inf # 0 THEN NaN
  ELSE median([j \in DOMAIN d |-> d[j].val])

\* np.percentile(d, q) for q = k * 2.5, multiplied by 40: linear interpolation
\* between the sorted entries around position (q / 100) * (len(d) - 1)
percentile(d, k) ==
  IF \E j \in DOMAIN d : d[j].inf # 0 THEN NaN
  ELSE LET t == SortInts([j \in DOMAIN d |-> d[j].val])
           pos40 == k * (Len(d) - 1)
           lo == pos40 \div 40
           r == pos40 % 40
           hi == IF lo + 1 > Len(d) - 1 THEN Len(d) - 1 ELSE lo + 1
       IN Fin(t[lo + 1] * (40 - r) + t[hi + 1] * r)

\* int(0.8 * total_points): the size of one resample
sample_size(total_points) == (8 * total_points) \div 10

\* np.random.choice(np.array(data), size): every draw with replacement
resamples(data, size) ==
  {[j \in 1..size |-> data[pick[j]]] : pick \in [1..size -> DOMAIN data]}

\* the values median(data_sample) can take in one round of the loop
resample_medians(data) ==
  {median(smp) : smp \in resamples(data, sample_size(Len(data)))}

\* the return statement of bootstrap
bootstrap_return(dist) == <<median_of(dist), percentile(dist, 1), percentile(dist, 39)>>

(***************************************************************************)
(* SpecBoot: bootstrap called on bounded arrays.                           *)
(***************************************************************************)
DataVals == {1, 2}

InitBoot ==
  /\ IdleFitting
  /\ IdlePeaks
  /\ IdleCheck
  /\ IdleCluster
  /\ bs_pc = "resample"
  /\ bs_data \in UNION {[1..n -> DataVals] : n \in 1..MaxData}
  /\ bs_i = 0
  /\ bootstrap_dist = [j \in 1..Resamples |-> Fin(0)]
  /\ bs_out = <<>>

\* one round of the loop of lines 457-460
Resample ==
  /\ bs_pc = "resample"
  /\ bs_i < Resamples
  /\ \E m \in resample_medians(bs_data) :
       bootstrap_dist' = [bootstrap_dist EXCEPT ![bs_i + 1] = m]
  /\ bs_i' = bs_i + 1
  /\ UNCHANGED <<bs_pc, bs_data, bs_out>>
  /\ UNCHANGED <<pd_vars, fc_vars, cl_vars, fpf_vars>>

BootstrapReturn ==
  /\ bs_pc = "resample"
  /\ bs_i = Resamples
  /\ bs_out' = bootstrap_return(bootstrap_dist)
  /\ bs_pc' = "returned"
  /\ UNCHANGED <<bs_data, bs_i, bootstrap_dist>>
  /\ UNCHANGED <<pd_vars, fc_vars, cl_vars, fpf_vars>>

NextBoot == Resample \/ BootstrapReturn

SpecBoot == InitBoot /\ [][NextBoot]_vars

\* C7: for a constant array of any size n >= 1 bootstrap returns a median and
\* both percentiles equal to the constant, whatever is drawn; each resample
\* has int(0.8 * n) elements.
C7_ConstantInput ==
  (bs_pc = "returned" /\ \A j \in DOMAIN bs_data : bs_data[j] = bs_data[1]) =>
    bs_out = <<Fin(4 * bs_data[1]), Fin(80 * bs_data[1]), Fin(80 * bs_data[1])>>

(***************************************************************************)
(* final_check_for_output: the consensus aggregator.                       *)
(*                                                                         *)
(* Fitted centers are in half Hz, fitted widths in whole units.  The       *)
(* frequency vector of process_elec_data is f[1:50] of a 1 Hz grid: entry  *)
(* number j (from 0) of flatspec belongs to the frequency j + 1 Hz.        *)
(***************************************************************************)
GridLen == 49

\* extcv_pks[cv][i] <= 30 and extcv_pks[cv][i] >= 0, on half Hz
in_band(c) == c <= 2 * 30 /\ c >= 0

\* flatspec[c]: the real number c used as an index is cut to int(c) (numpy
\* 1.9 warns with the DeprecationWarning the notebook silences)
flat_index(c) == c \div 2

\* flatspec[extcv_pks[cv][i]] > 0
flat_positive(flatspec, c) == flatspec[flat_index(c) + 1] > 0

\* the (center, width) pairs of the accumulation, in the order of the loops
fit_pairs(pks, std) ==
  Flatten([cv \in DOMAIN pks |-> [i \in DOMAIN pks[cv] |-> <<pks[cv][i], std[cv][i]>>]])

\* lines 480-485: the pairs appended to extcv_pks_raster / extcv_std_raster
raster(pks, std, flatspec) ==
  LET keep(pr) == in_band(pr[1]) /\ flat_positive(flatspec, pr[1])
  IN SelectSeq(fit_pairs(pks, std), keep)

SeqMin(s) == CHOOSE m \in Range(s) : \A e \in Range(s) : m <= e
SeqMax(s) == CHOOSE m \in Range(s) : \A e \in Range(s) : m >= e

\* np.histogram(centers, 5): the six bin edges, multiplied by 5.  An empty
\* array is binned over 0..1 Hz, a single value c over c - 0.5 .. c + 0.5.
bin_edge(centers) ==
  LET mn0 == IF centers = <<>> THEN 0 ELSE SeqMin(centers)
      mx0 == IF centers = <<>> THEN 2 ELSE SeqMax(centers)
      mn == IF mn0 = mx0 THEN mn0 - 1 ELSE mn0
      mx == IF mn0 = mx0 THEN mx0 + 1 ELSE mx0
  IN [b \in 1..6 |-> 5 * mn + (b - 1) * (mx - mn)]

\* the count of bin b: half open, the last bin closed
bin_count(centers, b) ==
  LET e == bin_edge(centers)
  IN Cardinality({j \in DOMAIN centers :
        /\ e[b] <= 5 * centers[j]
        /\ IF b = 5 THEN 5 * centers[j] <= e[b + 1] ELSE 5 * centers[j] < e[b + 1]})

\* bin_count[i] >= bin_thresh * len(extcv_pks_raster), bin_thresh = 0.05
valid_bin(centers, b) == 20 * bin_count(centers, b) >= Len(centers)

\* temp_ind of a valid bin: low <= center <= high
bin_members(centers, b) ==
  LET e == bin_edge(centers)
      inside(j) == e[b] <= 5 * centers[j] /\ 5 * centers[j] <= e[b + 1]
  IN SelectSeq([j \in DOMAIN centers |-> j], inside)

\* med_std <= 10 on a doubled median; a comparison with nan is false
\* A slip: the test written as not (med_std > 10), which nan passes.
width_ok_nan_passes(med_std) == ~(med_std.inf = 0 /\ med_std.val > 2 * 10)

width_ok(med_std) == med_std.inf = 0 /\ med_std.val <= 2 * 10

\* what one call of bootstrap can return: np.random.choice raises ValueError
\* on an empty array
bootstrap(data) ==
  IF data = <<>> THEN {[status |-> "ValueError"]}
  ELSE {[status |-> "ok", ret |-> bootstrap_return(d)] :
          d \in [1..Resamples -> resample_medians(data)]}

\* lines 500-507 from valid bin number b on: every (status, final_peaks,
\* final_stds) the loop can end with after peaks, stds
RECURSIVE final_loop(_, _, _, _, _)
final_loop(centers, widths, b, peaks, stds) ==
  IF b > 5 THEN {[status |-> "ok", final_peaks |-> peaks, final_stds |-> stds]}
  ELSE IF ~valid_bin(centers, b) THEN final_loop(centers, widths, b + 1, peaks, stds)
  ELSE LET ind == bin_members(centers, b)
           mp == [j \in DOMAIN ind |-> centers[ind[j]]]
           ms == [j \in DOMAIN ind |-> widths[ind[j]]]
       IN IF ~width_ok(median(ms)) THEN final_loop(centers, widths, b + 1, peaks, stds)
          ELSE LET cf_params == bootstrap(mp)
                   bw_params == bootstrap([j \in DOMAIN ms |-> 2355 * ms[j]])
               IN IF \E r \in cf_params \cup bw_params : r.status # "ok"
                  THEN {[status |-> "ValueError", final_peaks |-> peaks, final_stds |-> stds]}
                  ELSE UNION {final_loop(centers, widths, b + 1,
                                         Append(peaks, cf), Append(stds, bw)) :
                                cf \in {r.ret[1] : r \in cf_params},
                                bw \in {r.ret[1] : r \in bw_params}}

\* final_check_for_output(extcv_pks, extcv_std, flatspec): every outcome,
\* with the rasters it filtered
final_check_for_output(pks, std, flatspec) ==
  LET r == raster(pks, std, flatspec)
      centers == [j \in DOMAIN r |-> r[j][1]]
      widths == [j \in DOMAIN r |-> r[j][2]]
  IN {[status |-> o.status, extcv_pks_raster |-> centers, extcv_std_raster |-> widths,
       final_peaks |-> o.final_peaks, final_stds |-> o.final_stds] :
        o \in final_loop(centers, widths, 1, <<>>, <<>>)}

(***************************************************************************)
(* SpecCheck: final_check_for_output called on bounded accumulations.      *)
(***************************************************************************)
\* (center in half Hz, width) pairs a fit can give: -0.5, 10, 10.5, 30 and
\* 30.5 Hz, the one at 30 Hz with a width above the cutoff of 10
FitPairs == {<<-1, 1>>, <<20, 1>>, <<21, 1>>, <<60, 11>>, <<61, 1>>}

\* a full-data flatspec: lo at 1..10 Hz, hi from 11 Hz on
Flatspec(lo, hi) == [f \in 1..GridLen |-> IF f <= 10 THEN lo ELSE hi]

\* The accumulations: no repetition fitted (both lists empty), or MaxRuns
\* repetitions that share up to MaxComps components, in order.
Accumulations ==
  {<<>>} \cup
  UNION {
    {[r \in 1..MaxRuns |-> SelectSeq([j \in 1..n |-> <<flat[j], run[j]>>],
                                     LAMBDA e : e[2] = r)] :
        flat \in [1..n -> FitPairs],
        run \in {q \in [1..n -> 1..MaxRuns] : \A j \in 1..(n - 1) : q[j] <= q[j + 1]}} :
    n \in 0..MaxComps}

InitCheck ==
  /\ IdleFitting
  /\ IdlePeaks
  /\ IdleBoot
  /\ IdleCluster
  /\ fc_pc = "start"
  /\ \E acc \in Accumulations :
       /\ fc_pks = [cv \in DOMAIN acc |-> [i \in DOMAIN acc[cv] |-> acc[cv][i][1][1]]]
       /\ fc_std = [cv \in DOMAIN acc |-> [i \in DOMAIN acc[cv] |-> acc[cv][i][1][2]]]
  /\ \E lo \in {0, 1}, hi \in {0, 1} : fc_flatspec = Flatspec(lo, hi)
  /\ fc_out = NoReturn

CallFinalCheck ==
  /\ fc_pc = "start"
  /\ fc_out' \in final_check_for_output(fc_pks, fc_std, fc_flatspec)
  /\ fc_pc' = "returned"
  /\ UNCHANGED <<fc_pks, fc_std, fc_flatspec>>
  /\ UNCHANGED <<pd_vars, bs_vars, cl_vars, fpf_vars>>

NextCheck == CallFinalCheck

SpecCheck == InitCheck /\ [][NextCheck]_vars

\* C6: when no fitted center survives the filters, in particular when the
\* accumulated lists are empty, final_check_for_output returns two empty
\* sequences and does not raise.
C6_NoSurvivorEmptyOutput ==
  (fc_pc = "returned" /\ fc_out.extcv_pks_raster = <<>>) =>
    /\ fc_out.status = "ok"
    /\ fc_out.final_peaks = <<>>
    /\ fc_out.final_stds = <<>>

\* the aggregator has returned from an empty accumulation
C6_Witness ==
  /\ fc_pc = "returned"
  /\ fc_pks = <<>>
  /\ fc_std = <<>>
  /\ fc_out.status = "ok"
  /\ fc_out.final_peaks = <<>>

\* a center that is a point of the 1..49 Hz grid
C10_OnGrid(pr) == pr[1] % 2 = 0 /\ pr[1] \div 2 \in 1..GridLen

\* C10: a fitted center c survives, with its width, if and only if
\* 0 <= c <= 30 and the flatspec entry whose frequency is c is strictly
\* positive.  Stated for the centers that are points of the grid: the entry
\* of frequency c Hz is number c of the sequence counted from 1.
C10_SurvivesIffPositiveAtCenter ==
  fc_pc = "returned" =>
    LET claim(pr) == /\ C10_OnGrid(pr)
                     /\ in_band(pr[1])
                     /\ fc_flatspec[pr[1] \div 2] > 0
        kept == [j \in DOMAIN fc_out.extcv_pks_raster |->
                   <<fc_out.extcv_pks_raster[j], fc_out.extcv_std_raster[j]>>]
    IN SelectSeq(kept, C10_OnGrid)
         = SelectSeq(SelectSeq(fit_pairs(fc_pks, fc_std), C10_OnGrid), claim)

(***************************************************************************)
(* kmeans and find_cluster: the cluster-count selector.                    *)
(*                                                                         *)
(* cluster.KMeans(n_clusters=k).fit(X) starts from k observations drawn by *)
(* k-means++ (an observation at distance 0 from a drawn one is not drawn   *)
(* again), alternates nearest-center assignment and mean update until the  *)
(* assignment is stable, and keeps the best of its restarts.  Every        *)
(* restart may draw the same start, so the run can end in the fixed point  *)
(* of any start.  A center is the mean sum/n of its cluster, kept as the   *)
(* pair; sums of squares are multiplied by Scale to stay whole.            *)
(***************************************************************************)
RECURSIVE Factorial(_)
Factorial(n) == IF n <= 1 THEN 1 ELSE n * Factorial(n - 1)

\* every cluster size divides it, and so does 4
Scale == Factorial(MaxPool)

Abs(n) == IF n < 0 THEN -n ELSE n

\* x is strictly nearer to center a than to center b
nearer(x, a, b) == Abs(x * a.n - a.s) * b.n < Abs(x * b.n - b.s) * a.n

\* the label of x: the first of the nearest centers (argmin)
label(x, centers) ==
  CHOOSE j \in DOMAIN centers :
    /\ \A l \in 1..(j - 1) : nearer(x, centers[j], centers[l])
    /\ \A l \in (j + 1)..Len(centers) : ~nearer(x, centers[l], centers[j])

\* The observations as the fit sees them: every observed value x, ascending,
\* with the number w of observations that have it.  The label of an
\* observation depends on its value only, so equal observations share it.
RECURSIVE ascending(_)
ascending(S) ==
  IF S = {} THEN <<>>
  ELSE LET least == CHOOSE x \in S : \A y \in S : x <= y
       IN <<least>> \o ascending(S \ {least})

observations(X) ==
  LET vals == ascending(Range(X))
  IN [j \in DOMAIN vals |-> [x |-> vals[j], w |-> Count(X, vals[j])]]

\* the labels of the observed values from number i on
RECURSIVE labels_from(_, _, _)
labels_from(B, centers, i) ==
  IF i > Len(B) THEN <<>>
  ELSE <<label(B[i].x, centers)>> \o labels_from(B, centers, i + 1)

labels(B, centers) == labels_from(B, centers, 1)

\* of cluster j: the sum s of its observations, their number n and the sum q
\* of their squares
cluster_stats(B, lab, j) ==
  [s |-> SumSeq([l \in DOMAIN B |-> IF lab[l] = j THEN B[l].w * B[l].x ELSE 0]),
   n |-> SumSeq([l \in DOMAIN B |-> IF lab[l] = j THEN B[l].w ELSE 0]),
   q |-> SumSeq([l \in DOMAIN B |-> IF lab[l] = j THEN B[l].w * B[l].x * B[l].x ELSE 0])]

\* the means of the clusters of a labelling, from cluster j on; n = 0 for an
\* empty cluster
RECURSIVE means_from(_, _, _, _)
means_from(B, lab, k, j) ==
  IF j > k THEN <<>>
  ELSE <<cluster_stats(B, lab, j)>> \o means_from(B, lab, k, j + 1)

means(B, lab, k) == means_from(B, lab, k, 1)

\* Scale times the sum over the observations of the squared distance to the
\* mean of their cluster
inertia(B, lab, k) ==
  LET c == means(B, lab, k)
  IN SumSeq([j \in 1..k |->
       IF c[j].n = 0 THEN 0 ELSE (Scale \div c[j].n) * (c[j].n * c[j].q - c[j].s * c[j].s)])

\* Lloyd's iteration from a labelling to the stable one
RECURSIVE lloyd(_, _, _)
lloyd(B, lab, k) ==
  LET c == means(B, lab, k)
  IN IF \E j \in 1..k : c[j].n = 0 THEN lab
     ELSE LET next == labels(B, c)
          IN IF next = lab THEN lab ELSE lloyd(B, next, k)

\* the starts of k-means++: k different observed values in any order, or,
\* when fewer than k values are observed, all of them (the remaining draws
\* repeat one, at distance 0)
starts(X, k) ==
  LET vals == Range(X)
      m == IF Cardinality(vals) < k THEN Cardinality(vals) ELSE k
  IN {c \in [1..m -> vals] : \A a, b \in 1..m : a # b => c[a] # c[b]}

\* kmeans(X, cluster_size): the inertia values km.inertia_ can take, or the
\* ValueError of KMeans for fewer observations than clusters
kmeans(X, k) ==
  IF Len(X) < k THEN {[status |-> "ValueError"]}
  ELSE LET B == observations(X)
       IN {LET c0 == [j \in DOMAIN c |-> [s |-> c[j], n |-> 1, q |-> c[j] * c[j]]]
               lab == lloyd(B, labels(B, c0), Len(c))
           IN [status |-> "ok", inertia |-> inertia(B, lab, Len(c))] :
             c \in starts(X, k)}

\* zeroSoS: Scale times the sum of squared deviations from the median
zeroSoS(X) ==
  LET med2 == Median2(X)
  IN (Scale \div 4) * SumSeq([i \in DOMAIN X |-> (2 * X[i] - med2) * (2 * X[i] - med2)])

(***************************************************************************)
(* SpecCluster: find_cluster called on bounded pools.                      *)
(***************************************************************************)
PoolVals == {0, 2, 7, 15}
\* the largest pool on which find_cluster fails: one observation short of the
\* 5 clusters of its last round
MinPool == 5 - 1

Pools == UNION {{q \in [1..n -> PoolVals] : \A j \in 1..(n - 1) : q[j] <= q[j + 1]} :
                n \in MinPool..MaxPool}

\* A slip: the newest value is put in front of the history.
SoS_list_insert_front(history, SoS_tmp) == <<SoS_tmp>> \o history

\* SoS_list.append((SoS_tmp))
SoS_list_append(history, SoS_tmp) == Append(history, SoS_tmp)

InitCluster ==
  /\ IdleFitting
  /\ IdlePeaks
  /\ IdleBoot
  /\ IdleCheck
  /\ cl_pc = "loop"
  /\ cl_X \in Pools
  /\ cluster_size = 1
  /\ SoS_list = SoS_list_append(<<>>, zeroSoS(cl_X))
  /\ cl_out = NoReturn

\* one round of the loop of lines 431-433
ClusterRound ==
  /\ cl_pc = "loop"
  /\ cluster_size <= 5
  /\ \E r \in kmeans(cl_X, cluster_size) :
       IF r.status = "ok"
       THEN /\ SoS_list' = SoS_list_append(SoS_list, r.inertia)
            /\ cluster_size' = cluster_size + 1
            /\ UNCHANGED <<cl_pc, cl_out>>
       ELSE /\ cl_pc' = "raised"
            /\ cl_out' = [status |-> r.status]
            /\ UNCHANGED <<SoS_list, cluster_size>>
  /\ UNCHANGED cl_X
  /\ UNCHANGED <<pd_vars, bs_vars, fc_vars, fpf_vars>>

\* A slip: of several largest decreases the last one is taken.
SoS_knee_last_on_ties(sos) ==
  LET dx == [j \in 1..(Len(sos) - 1) |-> sos[j] - sos[j + 1]]
  IN (CHOOSE j \in DOMAIN dx :
        /\ \A l \in DOMAIN dx : dx[l] <= dx[j]
        /\ \A l \in (j + 1)..Len(dx) : dx[l] < dx[j]) - 1

\* np.argmax(dx) for dx = SoS_list[:-1] - SoS_list[1:]: the first index (from
\* 0) of the largest consecutive decrease
SoS_knee(sos) ==
  LET dx == [j \in 1..(Len(sos) - 1) |-> sos[j] - sos[j + 1]]
  IN (CHOOSE j \in DOMAIN dx :
        /\ \A l \in DOMAIN dx : dx[l] <= dx[j]
        /\ \A l \in 1..(j - 1) : dx[l] < dx[j]) - 1

\* lines 435-437
ClusterReturn ==
  /\ cl_pc = "loop"
  /\ cluster_size = 6
  /\ cl_out' = [status |-> "ok", count |-> SoS_knee(SoS_list) + 2, SoS_list |-> SoS_list]
  /\ cl_pc' = "returned"
  /\ UNCHANGED <<cl_X, cluster_size, SoS_list>>
  /\ UNCHANGED <<pd_vars, bs_vars, fc_vars, fpf_vars>>

NextCluster == ClusterRound \/ ClusterReturn

SpecCluster == InitCluster /\ [][NextCluster]_vars

Decrease(history, j) == history[j + 1] - history[j + 2]

\* C12: find_cluster returns the whole history [baseline, inertia(1), ...,
\* inertia(5)] of its six entries, and as the count the index (from 0) of the
\* largest of the five consecutive decreases of that history, the earliest
\* of them on ties, plus two; the count lies in 2..6.
C12_CountIsLargestDecreasePlusTwo ==
  (cl_pc = "returned") =>
    /\ cl_out.status = "ok"
    /\ cl_out.SoS_list = SoS_list
    /\ Len(cl_out.SoS_list) = 6
    /\ cl_out.SoS_list[1] = zeroSoS(cl_X)
    /\ cl_out.count \in 2..6
    /\ \A l \in 0..4 :
         /\ Decrease(cl_out.SoS_list, l) <= Decrease(cl_out.SoS_list, cl_out.count - 2)
         /\ l < cl_out.count - 2 =>
              Decrease(cl_out.SoS_list, l) < Decrease(cl_out.SoS_list, cl_out.count - 2)

\* find_cluster has returned a count for a history in which a later decrease
\* is as large as the largest one
C12_Witness ==
  /\ cl_pc = "returned"
  /\ \E l \in (cl_out.count - 1)..4 :
       Decrease(cl_out.SoS_list, l) = Decrease(cl_out.SoS_list, cl_out.count - 2)

(***************************************************************************)
(* final_peak_fitting: the outer repetitions.                              *)
(*                                                                         *)
(* The trials and the random splits are inputs: each flatspec computed     *)
(* from a subset of the trials is drawn from Spectra.  Frequencies are in  *)
(* Hz, flatspec values and thresholds in hundredths.                       *)
(***************************************************************************)
ExtCV == 2         \* outer repetitions (the notebook runs range(0,10))
InnerSplits == 1   \* inner splits of a repetition (the notebook draws 100)

\* f = f[1:50]: the frequencies 1 .. 49 Hz
freq_vector == Window(1, GridLen)

\* deltas = [0.03, 0.05, 0.07]
deltas == <<3, 5, 7>>

\* the width of np.zeros((3,12)) and np.zeros(12)
Slots == 12

\* a flatspec that is 0 but for the height h at the frequency fr of every
\* <<fr, h>> of bumps
Spectrum(bumps) ==
  [j \in 1..GridLen |->
     IF \E b \in bumps : b[1] = j THEN (CHOOSE b \in bumps : b[1] = j)[2] ELSE 0]

\* no peak; peaks at 10 Hz and (lower) 30 Hz; one peak beyond the search
\* band; a rise of 0.10 at every odd frequency
Spectra == {Spectrum({}), Spectrum({<<10, 10>>, <<30, 6>>}),
            Spectrum({<<40, 10>>}),
            Spectrum({<<fr, 10>> : fr \in {j \in 1..GridLen : j % 2 = 1}})}

\* vect = np.zeros(12); vect[0:len(found)] = found
slot_vector(found) ==
  [j \in 1..Slots |-> IF j <= Len(found) THEN found[j] ELSE 0]

\* the elements of row d of every matrix of params that are >= 0
RECURSIVE window_peaks(_, _)
window_peaks(params, d) ==
  IF params = <<>> THEN <<>>
  ELSE SelectSeq(Head(params)[d], LAMBDA elem : elem >= 0)
         \o window_peaks(Tail(params), d)

\* transform_data(params)
transform_data(params) ==
  LET peaks1 == window_peaks(params, 1)
      peaks2 == window_peaks(params, 2)
      peaks3 == window_peaks(params, 3)
  IN [X |-> SelectSeq(peaks1 \o peaks2 \o peaks3,
                      LAMBDA elem : elem < 30 /\ elem >= 0),
      peaks1 |-> peaks1, peaks2 |-> peaks2, peaks3 |-> peaks3]

\* the count find_cluster(X) returns: SoS_knee + 2 for an index SoS_knee of
\* the five differences of its history (SpecCluster computes which), or the
\* ValueError of the round that asks for more clusters than observations
find_cluster_count(X) ==
  IF Len(X) < 5 THEN {[status |-> "ValueError"]}
  ELSE {[status |-> "ok", count |-> SoS_knee_ + 2] : SoS_knee_ \in 0..4}

\* the ascending sequences of m values of vals
pads(vals, m) ==
  {q \in [1..m -> vals] : \A j \in 1..(m - 1) : q[j] <= q[j + 1]}

\* kmeans(X, cluster_size)[0], km.cluster_centers_: the means of the stable
\* clusters of a start, as pairs (s, n) for s/n; with fewer values observed
\* than clusters, the remaining centers repeat observed values
kmeans_clusters(X, k) ==
  IF Len(X) < k THEN {[status |-> "ValueError"]}
  ELSE LET B == observations(X)
           repeats == pads({B[l].x : l \in DOMAIN B}, IF Len(B) < k THEN k - Len(B) ELSE 0)
       IN UNION {LET c0 == [j \in DOMAIN c |-> [s |-> c[j], n |-> 1, q |-> c[j] * c[j]]]
                     lab == lloyd(B, labels(B, c0), Len(c))
                     ctr == means(B, lab, Len(c))
                 IN {[status |-> "ok",
                      clusters |-> [j \in 1..k |->
                        IF j <= Len(c) THEN [s |-> ctr[j].s, n |-> ctr[j].n]
                        ELSE [s |-> pad[j - Len(c)], n |-> 1]]] :
                      pad \in repeats} :
                   c \in starts(X, k)}

\* np.uint32([p for p in cluster_all if p>=1 and p<=30])
initial_peakind(cluster_all) ==
  LET kept == SelectSeq(cluster_all, LAMBDA p : p.s >= p.n /\ p.s <= 30 * p.n)
  IN [j \in DOMAIN kept |-> uint32(kept[j].s \div kept[j].n)]

\* list(freq_vector[peakind]) + list(p.T) + list(flatspec_train[peakind]*2)
\* + [len(peakind)], with p = 1 .. len(peakind); index j (from 0) is entry
\* j + 1 here
initial_guess(peakind_, flatspec_train) ==
  [j \in DOMAIN peakind_ |-> freq_vector[peakind_[j] + 1]]
    \o [j \in DOMAIN peakind_ |-> j]
    \o [j \in DOMAIN peakind_ |-> flatspec_train[peakind_[j] + 1] * 2]
    \o <<Len(peakind_)>>

\* sp.optimize.curve_fit(norm, f, flatspec_train, p0=params): the fitted
\* parameters, or the RuntimeError of a fit that does not converge.  The
\* fitted values are whatever the optimizer ends at; the model takes the
\* initial guess for them.  The last parameter, which norm reads through
\* int(), has no effect on the residual under the optimizer's small steps
\* and stays where it started.
curve_fit(p0) == {[status |-> "ok", popt |-> p0], [status |-> "RuntimeError"]}

\* A slip: the upper end of the slice is left out.
std_slice_open_ended(oscillatory_fit_params, cluster_num) ==
  SubSeq(oscillatory_fit_params, cluster_num + 1, Len(oscillatory_fit_params))

\* oscillatory_fit_params[cluster_num:2*cluster_num]
std_slice(oscillatory_fit_params, cluster_num) ==
  SubSeq(oscillatory_fit_params, cluster_num + 1, 2 * cluster_num)

\* oscillatory_fit_params[0:cluster_num]
pks_slice(oscillatory_fit_params, cluster_num) ==
  SubSeq(oscillatory_fit_params, 1, cluster_num)

\* the functions the notebook defines
defined_functions ==
  {"process_elec_data", "norm", "peakdect", "find_peaks", "transform_data",
   "kmeans", "find_cluster", "bootstrap", "final_check_for_output",
   "final_peak_fitting"}

Init ==
  /\ IdlePeaks
  /\ IdleBoot
  /\ IdleCheck
  /\ IdleCluster
  /\ pc = "split"
  /\ rep = 0
  /\ split = 0
  /\ peaks_cv = <<>>
  /\ valleys_cv = <<>>
  /\ X_peaks = <<>>
  /\ X_valleys = <<>>
  /\ extcv_pks = <<>>
  /\ extcv_std = <<>>
  /\ printed = 0
  /\ peaks_found = <<>>
  /\ outcome = NoReturn

\* the run ends with an exception no handler of the notebook catches
Raise(exception) ==
  /\ pc' = "raised"
  /\ outcome' = [status |-> exception]

\* lines 582-584: what find_peaks returns at the three thresholds, for the
\* flatspec of the training trials of any split
split_findings ==
  {<<find_peaks(flatspec_train, deltas[1], freq_vector),
     find_peaks(flatspec_train, deltas[2], freq_vector),
     find_peaks(flatspec_train, deltas[3], freq_vector)>> : flatspec_train \in Spectra}

\* lines 573-592: one inner split, find_peaks at the three thresholds
InnerSplit ==
  /\ pc = "split"
  /\ split < InnerSplits
  /\ \E found \in split_findings :
          IF \E d \in 1..3 : found[d].status # "ok"
          THEN /\ Raise("SystemExit")
               /\ UNCHANGED <<split, peaks_cv, valleys_cv, peaks_found>>
          ELSE IF \E d \in 1..3 : \/ Len(found[d].peakind) > Slots
                                  \/ Len(found[d].valleyind) > Slots
          THEN /\ Raise("ValueError")
               /\ UNCHANGED <<split, peaks_cv, valleys_cv, peaks_found>>
          ELSE /\ peaks_cv' = Append(peaks_cv, [d \in 1..3 |-> slot_vector(found[d].peakind)])
               /\ valleys_cv' = Append(valleys_cv, [d \in 1..3 |-> slot_vector(found[d].valleyind)])
               /\ peaks_found' = peaks_found \o [d \in 1..3 |-> found[d].peakind]
               /\ split' = split + 1
               /\ UNCHANGED <<pc, outcome>>
  /\ UNCHANGED <<rep, X_peaks, X_valleys, extcv_pks, extcv_std, printed>>
  /\ UNCHANGED <<pd_vars, bs_vars, fc_vars, cl_vars>>

\* lines 594-600: the pools of the repetition
Pool ==
  /\ pc = "split"
  /\ split = InnerSplits
  /\ X_peaks' = transform_data(peaks_cv).X
  /\ X_valleys' = transform_data(valleys_cv).X
  /\ pc' = "fit"
  /\ UNCHANGED <<rep, split, peaks_cv, valleys_cv, extcv_pks, extcv_std, printed,
                 peaks_found, outcome>>
  /\ UNCHANGED <<pd_vars, bs_vars, fc_vars, cl_vars>>

\* lines 603-604 and 613-618: the centers kmeans returns for the count
\* find_cluster returns, for the peaks and for the valleys, and the
\* positions kept of them; or the ValueError of either.  The comprehension
\* of line 618 goes through cluster_all = peak + valley element by element,
\* so what it keeps of peak comes before what it keeps of valley.
peakind_outcomes(Xp, Xv) ==
  LET centers(X) ==
        UNION {IF n.status = "ok" THEN kmeans_clusters(X, n.count) ELSE {n} :
                 n \in find_cluster_count(X)}
      kept(X) ==
        {IF c.status = "ok"
         THEN [status |-> "ok", peakind |-> initial_peakind(c.clusters)]
         ELSE c : c \in centers(X)}
  IN {IF peak.status = "ok" /\ valley.status = "ok"
      THEN [status |-> "ok", peakind |-> peak.peakind \o valley.peakind]
      ELSE [status |-> "ValueError"] :
        peak \in kept(Xp), valley \in kept(Xv)}

\* the end of the body of the outer loop: the next repetition starts with
\* peaks_cv = [] and valleys_cv = [] and binds the pools anew
NextRepetition ==
  /\ rep' = rep + 1
  /\ pc' = IF rep + 1 < ExtCV THEN "split" ELSE "aggregate"
  /\ split' = 0
  /\ peaks_cv' = <<>>
  /\ valleys_cv' = <<>>
  /\ X_peaks' = <<>>
  /\ X_valleys' = <<>>
  /\ peaks_found' = <<>>
  /\ UNCHANGED outcome

\* lines 603-630, up to the appends: what the body of the outer loop ends
\* with, for the flatspec of the training trials of any split.  A fit that
\* converges gives the slices of its parameters that lines 628-630 append,
\* cluster_num being the last parameter.
fit_outcomes(Xp, Xv) ==
  UNION {IF guess.status # "ok" THEN {guess}
         ELSE UNION {{IF fit.status # "ok" THEN fit
                      ELSE LET cluster_num == fit.popt[Len(fit.popt)]
                           IN [status |-> "ok",
                               std |-> std_slice(fit.popt, cluster_num),
                               pks |-> pks_slice(fit.popt, cluster_num)] :
                        fit \in curve_fit(initial_guess(guess.peakind, flatspec_train))} :
                      flatspec_train \in Spectra} :
           guess \in peakind_outcomes(Xp, Xv)}

\* lines 603-630: the cluster counts, the centers, the initial guess, the fit
\* and the appends, or the continue of a fit that did not converge
Fit ==
  /\ pc = "fit"
  /\ \E fit \in fit_outcomes(X_peaks, X_valleys) :
       IF fit.status = "ok"
       THEN /\ extcv_std' = Append(extcv_std, fit.std)
            /\ extcv_pks' = Append(extcv_pks, fit.pks)
            /\ UNCHANGED printed
            /\ NextRepetition
       ELSE IF fit.status = "RuntimeError"
       THEN /\ printed' = printed + 1
            /\ UNCHANGED <<extcv_pks, extcv_std>>
            /\ NextRepetition
       ELSE /\ Raise(fit.status)
            /\ UNCHANGED <<rep, split, peaks_cv, valleys_cv, X_peaks, X_valleys,
                           extcv_pks, extcv_std, printed, peaks_found>>
  /\ UNCHANGED <<pd_vars, bs_vars, fc_vars, cl_vars>>

\* line 632: the call of final_clustering_for_output, a name that no cell of
\* the notebook defines; its lookup raises NameError before anything is
\* handed over
CallAggregator ==
  /\ pc = "aggregate"
  /\ "final_clustering_for_output" \notin defined_functions
  /\ Raise("NameError")
  /\ UNCHANGED <<rep, split, peaks_cv, valleys_cv, X_peaks, X_valleys,
                 extcv_pks, extcv_std, printed, peaks_found>>
  /\ UNCHANGED <<pd_vars, bs_vars, fc_vars, cl_vars>>

Next == InnerSplit \/ Pool \/ Fit \/ CallAggregator

Spec == Init /\ [][Next]_vars

\* C1: a run of final_peak_fitting that has finished all its outer
\* repetitions, whichever of them failed to fit, goes on to hand the
\* accumulated centers and widths to the consensus aggregator and ends by
\* returning two sequences of equal length: it does not end otherwise.
C1_FinishedRunReturnsEqualLengths ==
  (rep = ExtCV /\ pc # "aggregate") =>
    /\ pc = "returned"
    /\ Len(outcome.final_peaks) = Len(outcome.final_bws)

\* C2: a repetition whose fit does not converge appends nothing to extcv_pks
\* or extcv_std, leaves their earlier entries as they were, and the loop goes
\* on to the next repetition; a repetition whose fit converges appends one
\* entry to each list, behind the earlier ones; nothing else changes the
\* lists; and when the loop has ended both lists hold one entry for every
\* repetition that did not fail, the two entries of a repetition having the
\* same number of components.
C2_FailedFitAppendsNothing ==
  [][/\ (printed' = printed + 1) =>
          /\ extcv_pks' = extcv_pks
          /\ extcv_std' = extcv_std
          /\ rep' = rep + 1
          /\ pc' = IF rep' < ExtCV THEN "split" ELSE "aggregate"
     /\ (rep' = rep + 1 /\ printed' = printed) =>
          /\ Len(extcv_pks') = Len(extcv_pks) + 1
          /\ Len(extcv_std') = Len(extcv_std) + 1
          /\ SubSeq(extcv_pks', 1, Len(extcv_pks)) = extcv_pks
          /\ SubSeq(extcv_std', 1, Len(extcv_std)) = extcv_std
     /\ (rep' = rep) => (extcv_pks' = extcv_pks /\ extcv_std' = extcv_std)
     /\ Len(extcv_pks') = rep' - printed'
     /\ Len(extcv_std') = rep' - printed'
     /\ \A j \in DOMAIN extcv_pks' : Len(extcv_pks'[j]) = Len(extcv_std'[j])
     /\ (pc' = "aggregate") => (rep' = ExtCV)]_vars

\* the loop has ended after a repetition that failed to fit and one that
\* fitted at least one component
C2_Witness ==
  /\ pc = "aggregate"
  /\ printed >= 1
  /\ Len(extcv_pks) >= 1
  /\ \E j \in DOMAIN extcv_pks : Len(extcv_pks[j]) >= 1

\* C9: the pool that transform_data hands to find_cluster holds exactly the
\* candidates find_peaks returned in the repetition, each as often as it was
\* returned, and neither the -1 of "no peak" nor the 0 of an unused slot.
C9_PoolIsTheCandidates ==
  (pc = "fit") =>
    SameBag(X_peaks, SelectSeq(Flatten(peaks_found), LAMBDA c : c # -1))

\* C13: on the 1..49 Hz grid find_peaks returns at most 12 maxima and at
\* most 12 minima at every threshold, so no inner split ends the run with the
\* ValueError of copying them into the 12 slots (lines 587-588).
C13_CandidatesFitTheSlots ==
  ~(pc = "raised" /\ outcome.status = "ValueError" /\ split < InnerSplits)

====
